---- MODULE Spec2Model ----
(***************************************************************************)
(* Model of the cleanlab example notebooks.                                *)
(*                                                                         *)
(*   datalab_image_classification/train_image_classifier.ipynb             *)
(*       K-fold training with early stopping, then out-of-sample           *)
(*       predicted probabilities and feature embeddings.                   *)
(*   find_tabular_errors/find_tabular_errors.ipynb                         *)
(*       XGBoost baseline, label issues from cross-validated               *)
(*       probabilities, retraining without them and on a corrected export. *)
(*   unnamed/part_000 (transformer_sklearn.ipynb)                          *)
(*       Bert tokenization, a Keras model wrapped for scikit-learn, grid   *)
(*       search, baseline training, CleanLearning and their evaluation.    *)
(*                                                                         *)
(* Library objects whose numeric content the notebooks never inspect (a    *)
(* network's weights, a row of probabilities) are represented by their     *)
(* provenance: which examples the weights were fitted on, which checkpoint *)
(* produced a row.  Library calls whose result depends on a seeded random  *)
(* generator are a choice made once, in Init, and fixed for the run.       *)
(***************************************************************************)
EXTENDS Integers, FiniteSets, Sequences, TLC

\* ------------------------------------------------------------------------
\* Bounds of the model (not program constants)
\* ------------------------------------------------------------------------
NumImages == 6          \* len(dataset)
NumClasses == 2         \* len(dataset.classes)
MaxShift == 2           \* the seeded shuffles considered: rotations 0..MaxShift
NumRows == 9            \* rows of student-grades-demo.csv
NumReviews == 6         \* rows of amazon_reviews/train.csv
NumTestReviews == 2     \* rows of amazon_reviews/test.csv
ShortText == 3          \* tokens of a short review
MaxTokens == 31         \* tokens of the longest review

\* ------------------------------------------------------------------------
\* Hyperparameters of the image notebook
\* ------------------------------------------------------------------------
num_epochs == 10
num_folds == 5
patience == 2

VARIABLES
    pc,                 \* position in the notebook
    labels,             \* np.array(dataset.targets)
    shuffle_42,         \* what the generator seeded with random_state=42 yields
    test_folds,         \* fold of each sample, as the running kf.split computed it
    fold,               \* loop variable of the fold loops (0-based)
    train_idx,          \* of the current fold
    test_idx,
    model,              \* the network held in the variable `model`
    epoch,
    best_val_accuracy,
    best_epoch,
    correct,
    total,
    val_accuracy,
    files,              \* checkpoint files on disk, by fold number 1..num_folds
    features,
    pred_probs,
    saved,              \* features.npy / pred_probs.npy
    held_out,           \* history: test_idx of each fold of the training cell
    eval_seen,          \* history: dataset indices the evaluation loop iterated
    val_history,        \* history: val_accuracy of each epoch of the fold
    pp_writes,          \* history: number of assignments to pred_probs[i]
    ft_writes,          \* history: number of assignments to features[i]
    \* find_tabular_errors.ipynb (pc, model and pred_probs are its variables too)
    df,
    df_c,
    shuffle_0,          \* what the generator seeded with random_state=0 yields
    df_train,
    df_test,
    test_data,
    test_labels,
    train_data,
    train_labels,
    preds,
    acc_original,
    issue_idx,
    issue_stud_id,
    issues_df,
    true_error_idx,
    cl_acc,
    train_data_cl,
    train_labels_cl,
    acc_clean,
    studio_export,      \* student-grades-demo-studio-export.csv
    clean_df,
    clean_data,
    clean_labels,
    acc_studio,
    cv_folds,           \* history: the folds cross_val_predict used
    next_id,            \* history: number of estimator objects constructed
    split_idx,          \* history: the positions train_test_split selected
    calls,              \* history: arguments of the training and detection calls
    evals,              \* history: arguments of each accuracy evaluation
    fits,               \* history: the estimator each cell constructed, and its use
    \* transformer notebook (pc, model, train_data, test_data, train_labels,
    \* test_labels and the history evals are its variables too)
    train_input,
    test_input,
    train_input_ids,
    test_input_ids,
    heap,               \* the Python objects `model` and `cl.clf` refer to
    params,
    gs,
    model_preds,
    model_accuracy,
    cl,
    cl_preds,
    cl_accuracy

vars == << pc, labels, shuffle_42, test_folds, fold, train_idx, test_idx, model,
           epoch, best_val_accuracy, best_epoch, correct, total, val_accuracy,
           files, features, pred_probs, saved, held_out, eval_seen, val_history,
           pp_writes, ft_writes,
           df, df_c, shuffle_0, df_train, df_test, test_data, test_labels,
           train_data, train_labels, preds, acc_original, issue_idx,
           issue_stud_id, issues_df, true_error_idx, cl_acc, train_data_cl,
           train_labels_cl, acc_clean, studio_export, clean_df, clean_data,
           clean_labels, acc_studio, cv_folds, next_id, split_idx, calls, evals,
           fits,
           train_input, test_input, train_input_ids, test_input_ids, heap,
           params, gs, model_preds, model_accuracy, cl, cl_preds, cl_accuracy >>

\* Variables of one notebook only.
imageOnly ==
    << labels, shuffle_42, test_folds, fold, train_idx, test_idx, epoch,
       best_val_accuracy, best_epoch, correct, total, val_accuracy, files,
       features, saved, held_out, eval_seen, val_history, pp_writes, ft_writes >>

tabularOnly ==
    << df, df_c, shuffle_0, df_train, df_test, test_data, test_labels,
       train_data, train_labels, preds, acc_original, issue_idx,
       issue_stud_id, issues_df, true_error_idx, cl_acc, train_data_cl,
       train_labels_cl, acc_clean, studio_export, clean_df, clean_data,
       clean_labels, acc_studio, cv_folds, next_id, split_idx, calls, evals,
       fits >>

\* The tabular notebook's variables the transformer notebook has no
\* variable of the same name for.
tabularRest ==
    << df, df_c, shuffle_0, df_train, df_test, preds, acc_original, issue_idx,
       issue_stud_id, issues_df, true_error_idx, cl_acc, train_data_cl,
       train_labels_cl, acc_clean, studio_export, clean_df, clean_data,
       clean_labels, acc_studio, cv_folds, next_id, split_idx, calls, fits >>

transformerOnly ==
    << train_input, test_input, train_input_ids, test_input_ids, heap, params,
       gs, model_preds, model_accuracy, cl, cl_preds, cl_accuracy >>

TransformerIdle ==
    /\ train_input = << >> /\ test_input = << >>
    /\ train_input_ids = << >> /\ test_input_ids = << >>
    /\ heap = << >> /\ params = << >> /\ gs = << >>
    /\ model_preds = << >> /\ model_accuracy = << >>
    /\ cl = << >> /\ cl_preds = << >> /\ cl_accuracy = << >>

\* The other notebook's variables while one notebook runs.
TabularIdle ==
    /\ df = << >> /\ df_c = << >> /\ shuffle_0 = 0
    /\ df_train = << >> /\ df_test = << >>
    /\ test_data = << >> /\ test_labels = << >>
    /\ train_data = << >> /\ train_labels = << >>
    /\ preds = << >> /\ acc_original = << >>
    /\ issue_idx = << >> /\ issue_stud_id = << >> /\ issues_df = << >>
    /\ true_error_idx = {} /\ cl_acc = << >>
    /\ train_data_cl = << >> /\ train_labels_cl = << >> /\ acc_clean = << >>
    /\ studio_export = << >> /\ clean_df = << >> /\ clean_data = << >>
    /\ clean_labels = << >> /\ acc_studio = << >>
    /\ cv_folds = << >> /\ next_id = 0 /\ split_idx = << >> /\ calls = {} /\ evals = {}
    /\ fits = {}

\* ------------------------------------------------------------------------
\* Values
\* ------------------------------------------------------------------------
Images == 0 .. (NumImages - 1)
Classes == 0 .. (NumClasses - 1)
NoFile == [exists |-> FALSE]
Zeros == [zeros |-> TRUE]
NoModel == [none |-> TRUE]

\* A float quotient num/den, kept exact as a pair.
Frac(n, d) == << n, d >>
FracGt(a, b) == a[1] * b[2] > b[1] * a[2]

\* ImageFolder lists the samples class directory by class directory, so
\* dataset.targets is non-decreasing, and every class directory holds a file.
ImageFolderTargets ==
    { y \in [Images -> Classes] :
        /\ \A i, j \in Images : i < j => y[i] <= y[j]
        /\ \A c \in Classes : \E i \in Images : y[i] = c }

\* ------------------------------------------------------------------------
\* sklearn.model_selection.StratifiedKFold, as kf.split(X, y) uses it
\* ------------------------------------------------------------------------
ClassesOf(y) == { y[i] : i \in DOMAIN y }
Members(y, c) == { i \in DOMAIN y : y[i] = c }
FirstIdx(y, c) == CHOOSE i \in Members(y, c) : \A j \in Members(y, c) : i <= j

\* y_encoded: classes numbered in their order of first appearance in y.
Encoded(y) ==
    [ c \in ClassesOf(y) |->
        Cardinality({ d \in ClassesOf(y) : FirstIdx(y, d) < FirstIdx(y, c) }) ]

\* First position of each class in y_order = np.sort(y_encoded).
SortedStart(y) ==
    LET enc == Encoded(y)
    IN  [ c \in ClassesOf(y) |->
            Cardinality({ i \in DOMAIN y : enc[y[i]] < enc[c] }) ]

\* allocation[f, c]: how many samples of class c fold f holds out
\* (np.bincount(y_order[f::n_splits])).
Allocation(y, n_splits) ==
    LET start == SortedStart(y)
    IN  [ c \in ClassesOf(y) |->
            [ f \in 0 .. (n_splits - 1) |->
                Cardinality({ p \in start[c] .. (start[c] + Cardinality(Members(y, c)) - 1) :
                                p % n_splits = f }) ] ]

\* np.arange(n_splits).repeat(alloc) at rank j: the fold f with
\* alloc[0] + ... + alloc[f-1] <= j < alloc[0] + ... + alloc[f].
RECURSIVE Repeat(_, _, _)
Repeat(alloc, f, j) ==
    IF j < alloc[f] THEN f ELSE Repeat(alloc, f + 1, j - alloc[f])

\* rng.shuffle(folds_for_class): the permutation the generator produces is
\* taken from the rotations of the array; rot = 0 leaves it as it is.
Shuffle(n, j, rot) == (j + rot) % n

\* test_folds[y_encoded == c] = folds_for_class, for every class c
TestFolds(y, n_splits, rot) ==
    LET allocation == Allocation(y, n_splits)
    IN  [ i \in DOMAIN y |->
            Repeat(allocation[y[i]], 0,
                   Shuffle(Cardinality(Members(y, y[i])),
                           Cardinality({ j \in Members(y, y[i]) : j < i }), rot)) ]

\* StratifiedKFold raises ValueError when n_splits exceeds the number of
\* members of every class.
SplitRaises(y, n_splits) ==
    \A c \in ClassesOf(y) : n_splits > Cardinality(Members(y, c))

SplitShuffle_SharedGenerator(seeded, call) == (seeded + call) % (MaxShift + 1)

\* random_state=42 is an integer: every call of kf.split builds a new
\* generator from it, so the call-th call (0-based) shuffles as the first.
SplitShuffle(seeded, call) == seeded

\* kf = StratifiedKFold(n_splits=num_folds, shuffle=True, random_state=42);
\* kf.split(dataset, labels) computes test_folds once, when its first pair
\* is asked for.  call numbers the calls of kf.split.
KfSplit(call) == TestFolds(labels, num_folds, SplitShuffle(shuffle_42, call))

KfTestIdx_DropLast(tf, k) ==
    { i \in Images :
        /\ tf[i] = k
        /\ (\E j \in Images : j > i /\ tf[j] = k)
              \/ (\A j \in Images : j # i => tf[j] # k) }

\* The k-th pair (train_idx, test_idx) the split yields.
KfTestIdx(tf, k) == { i \in Images : tf[i] = k }

KfTrainIdx(tf, k) == Images \ KfTestIdx(tf, k)

\* ------------------------------------------------------------------------
\* Training cell
\* ------------------------------------------------------------------------
\* torch.utils.data.Subset(dataset, idx) behind a DataLoader: the dataset
\* indices one pass over the loader yields.
TrainLoader == train_idx
ValLoader == test_idx

EvalLoop_TrainLoader == TrainLoader

\* The loader the evaluation loop iterates (`for inputs, targets in
\* tqdm(val_loader)`; the assignment eval_loader = train_loader is never read).
EvalLoop == ValLoader

MoreFolds_Inclusive(k) == k + 1 <= num_folds

\* enumerate(kf.split(dataset, labels)) yields another pair after fold k.
MoreFolds(k) == k + 1 < num_folds

\* `if val_accuracy > best_val_accuracy`
IsBest(acc, best) == FracGt(acc, best)

EarlyStop_AtPatience(e, b) == e - b >= patience

\* `if epoch - best_epoch > patience: break`
EarlyStop(e, b) == e - b > patience

ImageInit ==
    /\ TabularIdle
    /\ TransformerIdle
    /\ pc = "train_cell"
    /\ labels \in ImageFolderTargets
    /\ shuffle_42 \in 0 .. MaxShift
    /\ test_folds = << >>
    /\ fold = 0
    /\ train_idx = {}
    /\ test_idx = {}
    /\ model = NoModel
    /\ epoch = 0
    /\ best_val_accuracy = Frac(0, 1)
    /\ best_epoch = 0
    /\ correct = 0
    /\ total = 0
    /\ val_accuracy = Frac(0, 1)
    /\ files = [ k \in 1 .. num_folds |-> NoFile ]
    /\ features = [ i \in Images |-> Zeros ]
    /\ pred_probs = [ i \in Images |-> Zeros ]
    /\ saved = NoFile
    /\ held_out = [ k \in 1 .. num_folds |-> {} ]
    /\ eval_seen = {}
    /\ val_history = << >>
    /\ pp_writes = [ i \in Images |-> 0 ]
    /\ ft_writes = [ i \in Images |-> 0 ]

\* kf.split raises before the first fold.
TrainSplitError ==
    /\ pc = "train_cell"
    /\ SplitRaises(labels, num_folds)
    /\ pc' = "error"
    /\ UNCHANGED << labels, shuffle_42, test_folds, fold, train_idx, test_idx,
                    model, epoch, best_val_accuracy, best_epoch, correct, total,
                    val_accuracy, files, features, pred_probs, saved, held_out,
                    eval_seen, val_history, pp_writes, ft_writes >>
    /\ UNCHANGED tabularOnly
    /\ UNCHANGED transformerOnly

\* Head of one iteration of `for fold, (train_idx, test_idx) in enumerate(...)`
\* up to the start of the epoch loop.
StartFold ==
    /\ pc \in {"train_cell", "fold_loop"}
    /\ ~SplitRaises(labels, num_folds)
    /\ fold < num_folds
    /\ test_folds' = IF pc = "train_cell" THEN KfSplit(0) ELSE test_folds
    /\ train_idx' = KfTrainIdx(test_folds', fold)
    /\ test_idx' = KfTestIdx(test_folds', fold)
    /\ held_out' = [held_out EXCEPT ![fold + 1] = test_idx']
    /\ model' = [seen |-> {}, head |-> TRUE]
    /\ best_val_accuracy' = Frac(0, 1)
    /\ best_epoch' = 0
    /\ epoch' = 0
    /\ val_history' = << >>
    /\ pc' = "epoch_loop"
    /\ UNCHANGED << labels, shuffle_42, fold, correct, total, val_accuracy, files,
                    features, pred_probs, saved, eval_seen, pp_writes, ft_writes >>
    /\ UNCHANGED tabularOnly
    /\ UNCHANGED transformerOnly

\* One iteration of `for epoch in range(num_epochs)`: a pass over
\* train_loader, the evaluation, the checkpoint and the early-stopping test.
\* `right` is the set of iterated images the network classifies correctly
\* after the pass.  When the epoch loop ends the fold loop advances.
RunEpoch ==
    /\ pc = "epoch_loop"
    /\ epoch < num_epochs
    /\ \E right \in SUBSET EvalLoop :
        LET trained == [model EXCEPT !.seen = @ \cup TrainLoader]
            tot == Cardinality(EvalLoop)
            cor == Cardinality(EvalLoop \cap right)
            acc == Frac(100 * cor, tot)
            better == IsBest(acc, best_val_accuracy)
            b == IF better THEN epoch ELSE best_epoch
            ends == EarlyStop(epoch, b) \/ epoch + 1 = num_epochs
        IN  /\ tot > 0
            /\ model' = trained
            /\ eval_seen' = EvalLoop
            /\ total' = tot
            /\ correct' = cor
            /\ val_accuracy' = acc
            /\ val_history' = Append(val_history, acc)
            /\ files' = IF better
                          THEN [files EXCEPT ![fold + 1] =
                                   [exists |-> TRUE, state_dict |-> trained]]
                          ELSE files
            /\ best_val_accuracy' = IF better THEN acc ELSE best_val_accuracy
            /\ best_epoch' = b
            /\ IF ends
                 THEN /\ fold' = fold + 1
                      /\ epoch' = epoch
                      /\ pc' = IF MoreFolds(fold) THEN "fold_loop" ELSE "predict_cell"
                 ELSE /\ epoch' = epoch + 1
                      /\ UNCHANGED << fold, pc >>
    /\ UNCHANGED << labels, shuffle_42, test_folds, train_idx, test_idx, features,
                    pred_probs, saved, held_out, pp_writes, ft_writes >>
    /\ UNCHANGED tabularOnly
    /\ UNCHANGED transformerOnly

\* ------------------------------------------------------------------------
\* Prediction cell
\* ------------------------------------------------------------------------
PredPath_FirstFold(k) == 1

\* path = f'{model_prefix}_fold_{fold + 1}.pt'
PredPath(k) == k + 1

FeaturePath_OwnFold(k) == k + 1

\* path = f'{model_prefix}_fold_1.pt'
FeaturePath(k) == 1

\* model.reset_classifier(0)
ResetClassifier(m) == [m EXCEPT !.head = FALSE]

\* Lines before the loop: load the fold-1 checkpoint, allocate the arrays.
PredictSetup ==
    /\ pc = "predict_cell"
    /\ IF files[1].exists
         THEN /\ model' = files[1].state_dict
              /\ features' = [ i \in Images |-> Zeros ]
              /\ pred_probs' = [ i \in Images |-> Zeros ]
              /\ fold' = 0
              /\ pc' = "predict_loop"
         ELSE /\ pc' = "error"            \* torch.load: FileNotFoundError
              /\ UNCHANGED << model, features, pred_probs, fold >>
    /\ UNCHANGED << labels, shuffle_42, test_folds, train_idx, test_idx, epoch,
                    best_val_accuracy, best_epoch, correct, total, val_accuracy,
                    files, saved, held_out, eval_seen, val_history, pp_writes,
                    ft_writes >>
    /\ UNCHANGED tabularOnly
    /\ UNCHANGED transformerOnly

\* One iteration of `for fold, (_, test_idx) in enumerate(kf.split(...))`.
PredictFold ==
    /\ pc = "predict_loop"
    /\ fold < num_folds
    /\ test_folds' = IF fold = 0 THEN KfSplit(1) ELSE test_folds
    /\ test_idx' = KfTestIdx(test_folds', fold)
    /\ LET p == PredPath(fold)
           q == FeaturePath(fold)
       IN  IF files[p].exists /\ files[q].exists
             THEN /\ pred_probs' = [ i \in Images |->
                        IF i \in test_idx'
                          THEN [path |-> p, weights |-> files[p].state_dict]
                          ELSE pred_probs[i] ]
                  /\ pp_writes' = [ i \in Images |->
                        IF i \in test_idx' THEN pp_writes[i] + 1 ELSE pp_writes[i] ]
                  /\ model' = ResetClassifier(files[q].state_dict)
                  /\ features' = [ i \in Images |->
                        IF i \in test_idx'
                          THEN [path |-> q,
                                weights |-> ResetClassifier(files[q].state_dict)]
                          ELSE features[i] ]
                  /\ ft_writes' = [ i \in Images |->
                        IF i \in test_idx' THEN ft_writes[i] + 1 ELSE ft_writes[i] ]
                  /\ fold' = fold + 1
                  /\ pc' = IF fold + 1 < num_folds THEN "predict_loop" ELSE "predict_save"
             ELSE /\ pc' = "error"        \* torch.load: FileNotFoundError
                  /\ UNCHANGED << pred_probs, pp_writes, model, features,
                                  ft_writes, fold >>
    /\ UNCHANGED << labels, shuffle_42, train_idx, epoch, best_val_accuracy,
                    best_epoch, correct, total, val_accuracy, files, saved,
                    held_out, eval_seen, val_history >>
    /\ UNCHANGED tabularOnly
    /\ UNCHANGED transformerOnly

\* np.save(features_path, features); np.save(pred_probs_path, pred_probs)
SaveArtifacts ==
    /\ pc = "predict_save"
    /\ saved' = [exists |-> TRUE, features |-> features, pred_probs |-> pred_probs]
    /\ pc' = "saved"
    /\ UNCHANGED << labels, shuffle_42, test_folds, fold, train_idx, test_idx,
                    model, epoch, best_val_accuracy, best_epoch, correct, total,
                    val_accuracy, files, features, pred_probs, held_out,
                    eval_seen, val_history, pp_writes, ft_writes >>
    /\ UNCHANGED tabularOnly
    /\ UNCHANGED transformerOnly

ImageNext ==
    \/ TrainSplitError
    \/ StartFold
    \/ RunEpoch
    \/ PredictSetup
    \/ PredictFold
    \/ SaveArtifacts

SpecImage == ImageInit /\ [][ImageNext]_vars

\* The cells run to their end: the kernel executes one statement after the
\* other and nothing else is scheduled.
SpecImageFair == ImageInit /\ [][ImageNext]_vars /\ WF_vars(ImageNext)

\* ------------------------------------------------------------------------
\* find_tabular_errors.ipynb: data frames
\* ------------------------------------------------------------------------
\* A DataFrame is the sequence of its rows; a row maps "index" (its index
\* label) and the column names to values.  A Series is a sequence of
\* [index, value].  Positions are 0-based as in pandas: position p is
\* element p + 1.  Letter grades are numbered alphabetically (A = 1, B = 2)
\* and a written note by a positive number.
Positions(d) == 0 .. (Len(d) - 1)

\* A missing note (NaN in the csv).
NaN == 0

\* df.drop(cols, axis=1)
DropColumns(d, cols) ==
    [ p \in DOMAIN d |-> [ f \in (DOMAIN d[p]) \ cols |-> d[p][f] ] ]

\* df[[...]]
SelectColumns(d, cols) ==
    [ p \in DOMAIN d |-> [ f \in (cols \cup {"index"}) |-> d[p][f] ] ]

\* df[col]
Column(d, col) ==
    [ p \in DOMAIN d |-> [index |-> d[p].index, value |-> d[p][col]] ]

\* df.iloc[positions]
Iloc(d, positions) ==
    [ k \in DOMAIN positions |-> d[positions[k] + 1] ]

ResetIndex_Skipped(d) == d

\* df.reset_index(drop=True, inplace=True)
ResetIndex(d) ==
    [ p \in DOMAIN d |-> [d[p] EXCEPT !.index = p - 1] ]

IndexLabels(d) == { d[p].index : p \in DOMAIN d }

Range(seq) == { seq[k] : k \in DOMAIN seq }

\* df.drop(labels) raises KeyError for a label that is not in the index.
DropRaises(d, lbls) == ~(Range(lbls) \subseteq IndexLabels(d))

KeepRow(r, lbls) == r.index \notin Range(lbls)

\* df.drop(labels): the rows whose index label is not among the labels.
DropRows(d, lbls) == SelectSeq(d, LAMBDA r : KeepRow(r, lbls))

\* df[df[col].isin(values)]
WhereIsin(d, col, values) == SelectSeq(d, LAMBDA r : r[col] \in values)

\* preprocessing.LabelEncoder().fit(column).classes_ is the sorted array of
\* the column's distinct values, a missing value last; transform gives each
\* value its position in it.
SortsBefore(u, v) == u # v /\ (v = NaN \/ (u # NaN /\ u < v))

EncoderCode(d, col, v) ==
    Cardinality({ u \in { d[p][col] : p \in DOMAIN d } : SortsBefore(u, v) })

\* df[col] = preprocessing.LabelEncoder().fit_transform(df[col])
FitTransform(d, col) ==
    [ p \in DOMAIN d |-> [d[p] EXCEPT ![col] = EncoderCode(d, col, d[p][col])] ]

\* ------------------------------------------------------------------------
\* find_tabular_errors.ipynb: library calls
\* ------------------------------------------------------------------------
\* train_test_split(df, random_state=0): test_size defaults to 0.25,
\* n_test = ceil(0.25 * n), n_train = n - n_test; rng.permutation(n) is
\* taken from the rotations of 0..n-1; the test rows are its first n_test.
NTest_Floor(n) == n \div 4

NTest(n) == (n + 3) \div 4

Permutation(n, rot) == [ k \in 1 .. n |-> (k - 1 + rot) % n ]

TrainTestSplit(n, rot) ==
    [ test |-> SubSeq(Permutation(n, rot), 1, NTest(n)),
      train |-> SubSeq(Permutation(n, rot), NTest(n) + 1, n) ]

XGBClassifier_Defaults(id) ==
    [ id |-> id,
      params |-> [tree_method |-> "auto", enable_categorical |-> FALSE],
      fitted |-> FALSE, X |-> << >>, y |-> << >> ]

\* XGBClassifier(tree_method="hist", enable_categorical=True): a new,
\* unfitted estimator object.
XGBClassifier(id) ==
    [ id |-> id,
      params |-> [tree_method |-> "hist", enable_categorical |-> TRUE],
      fitted |-> FALSE, X |-> << >>, y |-> << >> ]

\* model.fit(X, y)
Fit(est, X, y) == [est EXCEPT !.fitted = TRUE, !.X = X, !.y = y]

Values(series) == [ p \in DOMAIN series |-> series[p].value ]

SetMin(S) == CHOOSE x \in S : \A z \in S : x <= z
SetMax(S) == CHOOSE x \in S : \A z \in S : z <= x

\* model.predict(X): the label vectors a fitted classifier may return, taken
\* from the constant predictors and a threshold on exam_1, over the classes
\* the classifier was fitted on.
Predictions(est, X) ==
    LET classes == Range(Values(est.y))
    IN  IF classes = {} THEN { [ p \in DOMAIN X |-> 0 ] }
        ELSE { [ p \in DOMAIN X |-> c ] : c \in classes }
             \cup { [ p \in DOMAIN X |->
                        IF X[p].exam_1 >= 85 THEN SetMin(classes)
                                             ELSE SetMax(classes) ] }

\* accuracy_score(a, b): the fraction of positions where they agree.
AccuracyScore(a, b) ==
    Frac(Cardinality({ p \in DOMAIN a : a[p] = b[p] }), Len(a))

\* cross_val_predict's default cv for a classifier:
\* StratifiedKFold(n_splits=5), not shuffled.
cv_splits == 5

ZeroBased(seq) == [ i \in Positions(seq) |-> seq[i + 1] ]

CvRaises(y) == SplitRaises(ZeroBased(Values(y)), cv_splits)

\* cross_val_predict(estimator, X, y, method='predict_proba'): row p is
\* predicted by a clone of the estimator fitted on the rows of the other
\* folds.
CvFolds(y) == TestFolds(ZeroBased(Values(y)), cv_splits, 0)

CrossValPredict(est, X, y, tf) ==
    [ p \in Positions(X) |->
        [ via |-> "cross_val_predict", estimator |-> est.id,
          was_fitted |-> est.fitted,
          fit_on |-> { q \in Positions(X) : tf[q] # tf[p] } ] ]

\* estimator.predict_proba(X) of an estimator fitted on all of X.
PredictProba(est, X) ==
    [ p \in Positions(X) |->
        [ via |-> "predict_proba", estimator |-> est.id,
          was_fitted |-> est.fitted, fit_on |-> Positions(X) ] ]

ProbsForIssues_InSample(baseline, fresh, X, y, tf) == PredictProba(baseline, X)

\* The pred_probs the find-label-issues cell computes:
\* model = XGBClassifier(...); cross_val_predict(model, train_data, train_labels, ...)
ProbsForIssues(baseline, fresh, X, y, tf) == CrossValPredict(fresh, X, y, tf)

\* find_label_issues(labels, pred_probs, return_indices_ranked_by=...):
\* distinct positions of the labels, best-ranked first; at most two of them
\* are considered.
IssueRankings(n) ==
    { << >> }
    \cup { << i >> : i \in 0 .. (n - 1) }
    \cup { q \in (0 .. (n - 1)) \X (0 .. (n - 1)) : q[1] # q[2] }

\* list.index(e): 0-based position of the first occurrence.
ListIndex(seq, e) ==
    (CHOOSE k \in DOMAIN seq : seq[k] = e /\ \A j \in 1 .. (k - 1) : seq[j] # e) - 1

\* Stable sort of the rows by key[stud_ID].
RECURSIVE InsertByKey(_, _, _)
InsertByKey(sorted, r, ids) ==
    IF sorted = << >> THEN << r >>
    ELSE IF ListIndex(ids, r.stud_ID) < ListIndex(ids, sorted[Len(sorted)].stud_ID)
           THEN Append(InsertByKey(SubSeq(sorted, 1, Len(sorted) - 1), r, ids),
                       sorted[Len(sorted)])
           ELSE Append(sorted, r)

SortByIds_Unsorted(d, ids) == d

RECURSIVE SortByIds(_, _)
\* issues_df.sort_values(by="stud_ID", key=... issue_stud_id.index(e))
SortByIds(d, ids) ==
    IF d = << >> THEN << >>
    ELSE InsertByKey(SortByIds(SubSeq(d, 1, Len(d) - 1), ids), d[Len(d)], ids)

\* ------------------------------------------------------------------------
\* find_tabular_errors.ipynb: the datasets considered
\* ------------------------------------------------------------------------
Rows == 0 .. (NumRows - 1)

Flip(g) == IF g = 1 THEN 2 ELSE 1

\* student-grades-demo.csv: an A student has high exam scores and a note; at
\* most one student, the first of the file, earned an A.  A file has at most
\* one irregularity: one wrong recorded grade (err), or one row that repeats
\* the stud_ID of the row before it (twice).
CsvRow(p, top, err, twice) ==
    LET g == IF p \in top THEN 1 ELSE 2
    IN  [ index |-> p, stud_ID |-> IF p \in twice THEN 100 + p ELSE 101 + p,
          exam_1 |-> IF g = 1 THEN 93 ELSE 84,
          exam_2 |-> IF g = 1 THEN 95 ELSE 81,
          exam_3 |-> IF g = 1 THEN 91 ELSE 80,
          notes |-> IF p \in top THEN 1 ELSE NaN,
          letter_grade |-> g,
          noisy_letter_grade |-> IF p \in err THEN Flip(g) ELSE g ]

Csv(top, err, twice) == [ k \in 1 .. NumRows |-> CsvRow(k - 1, top, err, twice) ]

AtMostOne == { {} } \cup { {p} : p \in Rows }

FirstOrNone == { {}, {0} }

LastOrNone(err) == IF err = {} THEN { {}, {NumRows - 1} } ELSE { {} }

\* issues_df.head(): the first five rows.
DfHead(d) == SubSeq(d, 1, IF Len(d) < 5 THEN Len(d) ELSE 5)

\* student-grades-demo-studio-export.csv: the uploaded rows with the label
\* Studio suggests: the recorded one, or the corrected one.
StudioRow(r, fixed) ==
    [ index |-> r.index, stud_ID |-> r.stud_ID, exam_1 |-> r.exam_1,
      exam_2 |-> r.exam_2, exam_3 |-> r.exam_3, notes |-> r.notes,
      cleanlab_suggested_label |->
          IF fixed THEN r.letter_grade ELSE r.noisy_letter_grade ]

StudioExports(d) == { [ p \in DOMAIN d |-> StudioRow(d[p], fixed) ] : fixed \in BOOLEAN }

\* The other notebook's variables while this notebook runs.
ImageIdle ==
    /\ labels = << >> /\ shuffle_42 = 0 /\ test_folds = << >> /\ fold = 0
    /\ train_idx = {} /\ test_idx = {} /\ epoch = 0
    /\ best_val_accuracy = << >> /\ best_epoch = 0 /\ correct = 0 /\ total = 0
    /\ val_accuracy = << >> /\ files = << >> /\ features = << >>
    /\ saved = NoFile /\ held_out = << >> /\ eval_seen = {}
    /\ val_history = << >> /\ pp_writes = << >> /\ ft_writes = << >>

\* ------------------------------------------------------------------------
\* find_tabular_errors.ipynb: the cells
\* ------------------------------------------------------------------------
IdColumns == {"stud_ID", "letter_grade", "noisy_letter_grade"}

TrainFeatures_KeepTruth(d) == DropColumns(d, {"stud_ID", "noisy_letter_grade"})

\* df_train.drop(['stud_ID', 'letter_grade', 'noisy_letter_grade'], axis=1)
TrainFeatures(d) == DropColumns(d, IdColumns)

TestLabelsOf_Noisy(d) == Column(d, "noisy_letter_grade")

\* test_labels = df_test['letter_grade']
TestLabelsOf(d) == Column(d, "letter_grade")

TabularInit ==
    /\ ImageIdle
    /\ TransformerIdle
    /\ pc = "setup_cell"
    /\ model = NoModel
    /\ pred_probs = << >>
    /\ \E top \in FirstOrNone, err \in AtMostOne :
          \E twice \in LastOrNone(err) : df = Csv(top, err, twice)
    /\ df_c = << >>
    /\ shuffle_0 \in 0 .. MaxShift
    /\ studio_export = << >>
    /\ df_train = << >> /\ df_test = << >>
    /\ test_data = << >> /\ test_labels = << >>
    /\ train_data = << >> /\ train_labels = << >>
    /\ preds = << >> /\ acc_original = << >>
    /\ issue_idx = << >> /\ issue_stud_id = << >> /\ issues_df = << >>
    /\ true_error_idx = {} /\ cl_acc = << >>
    /\ train_data_cl = << >> /\ train_labels_cl = << >> /\ acc_clean = << >>
    /\ clean_df = << >> /\ clean_data = << >> /\ clean_labels = << >>
    /\ acc_studio = << >>
    /\ cv_folds = << >> /\ next_id = 0 /\ split_idx = << >> /\ calls = {} /\ evals = {}
    /\ fits = {}

\* Setup cell: copy, label encoding, train/test split, test_data, test_labels.
SetupCell ==
    /\ pc = "setup_cell"
    /\ df_c' = df
    /\ df' = FitTransform(FitTransform(FitTransform(df, "letter_grade"),
                                       "noisy_letter_grade"), "notes")
    /\ split_idx' = TrainTestSplit(Len(df), shuffle_0)
    /\ df_train' = ResetIndex(Iloc(df', split_idx'.train))
    /\ df_test' = ResetIndex(Iloc(df', split_idx'.test))
    /\ test_data' = DropColumns(df_test', IdColumns)
    /\ test_labels' = TestLabelsOf(df_test')
    /\ pc' = "baseline_cell"
    /\ UNCHANGED << model, pred_probs, shuffle_0, train_data, train_labels, preds,
                    acc_original, issue_idx, issue_stud_id, issues_df,
                    true_error_idx, cl_acc, train_data_cl, train_labels_cl,
                    acc_clean, studio_export, clean_df, clean_data, clean_labels,
                    acc_studio, cv_folds, next_id, calls, evals, fits >>
    /\ UNCHANGED imageOnly
    /\ UNCHANGED transformerOnly

\* Baseline cell: fit on the noisy labels, evaluate on the test split.
BaselineCell ==
    /\ pc = "baseline_cell"
    /\ train_data' = TrainFeatures(df_train)
    /\ train_labels' = Column(df_train, "noisy_letter_grade")
    /\ model' = Fit(XGBClassifier(next_id), train_data', train_labels')
    /\ next_id' = next_id + 1
    /\ fits' = fits \cup { [cell |-> "baseline", used |-> "fit",
                             estimator |-> XGBClassifier(next_id)] }
    /\ calls' = calls \cup { [fn |-> "fit", X |-> train_data', y |-> train_labels'] }
    /\ preds' \in Predictions(model', test_data)
    /\ acc_original' = AccuracyScore(preds', Values(test_labels))
    /\ evals' = evals \cup { [acc |-> "acc_original", data |-> test_data,
                              labels |-> test_labels, estimator |-> model'.id] }
    /\ pc' = "issues_cell"
    /\ UNCHANGED << pred_probs, df, df_c, shuffle_0, df_train, df_test, test_data,
                    test_labels, issue_idx, issue_stud_id, issues_df,
                    true_error_idx, cl_acc, train_data_cl, train_labels_cl,
                    acc_clean, studio_export, clean_df, clean_data, clean_labels,
                    acc_studio, cv_folds, split_idx >>
    /\ UNCHANGED imageOnly
    /\ UNCHANGED transformerOnly

\* Find-label-issues cell: cross-validated probabilities, find_label_issues,
\* issues_df.
IssuesCell ==
    /\ pc = "issues_cell"
    /\ next_id' = next_id + 1
    /\ fits' = fits \cup { [cell |-> "issues", used |-> "cross_val_predict",
                             estimator |-> XGBClassifier(next_id)] }
    /\ IF CvRaises(train_labels)
         THEN /\ model' = XGBClassifier(next_id)
              /\ pc' = "error"           \* StratifiedKFold: ValueError
              /\ UNCHANGED << pred_probs, issue_idx, issue_stud_id, issues_df,
                              calls, cv_folds >>
         ELSE /\ model' = XGBClassifier(next_id)
              /\ cv_folds' = CvFolds(train_labels)
              /\ pred_probs' = ProbsForIssues(model, model', train_data,
                                              train_labels, cv_folds')
              /\ issue_idx' \in IssueRankings(Len(train_labels))
              /\ calls' = calls \cup
                    { [fn |-> "cross_val_predict", X |-> train_data, y |-> train_labels],
                      [fn |-> "find_label_issues", X |-> pred_probs', y |-> train_labels] }
              /\ issue_stud_id' = [ k \in DOMAIN issue_idx' |->
                                      Iloc(df_train, issue_idx')[k].stud_ID ]
              /\ issues_df' = SortByIds(WhereIsin(df_c, "stud_ID", Range(issue_stud_id')),
                                        issue_stud_id')
              /\ pc' = "score_cell"
    /\ UNCHANGED << df, df_c, shuffle_0, df_train, df_test, test_data, test_labels,
                    train_data, train_labels, preds, acc_original, true_error_idx,
                    cl_acc, train_data_cl, train_labels_cl, acc_clean,
                    studio_export, clean_df, clean_data, clean_labels, acc_studio,
                    split_idx, evals >>
    /\ UNCHANGED imageOnly
    /\ UNCHANGED transformerOnly

\* df_train[df_train.letter_grade != df_train.noisy_letter_grade].index.values
TrueErrorIdx(d) ==
    { d[p].index : p \in { q \in DOMAIN d :
          d[q].letter_grade # d[q].noisy_letter_grade } }

ErrorsFound_OfFlagged(T, I) == Frac(Cardinality(T \cap Range(I)), Len(I))

\* len(set(true_error_idx).intersection(set(issue_idx)))/len(true_error_idx)
ErrorsFound(T, I) == Frac(Cardinality(T \cap Range(I)), Cardinality(T))

\* "Percentage of errors found" cell.
ScoreCell ==
    /\ pc = "score_cell"
    /\ true_error_idx' = TrueErrorIdx(df_train)
    /\ IF true_error_idx' = {}
         THEN /\ pc' = "error"           \* ZeroDivisionError
              /\ UNCHANGED cl_acc
         ELSE /\ cl_acc' = ErrorsFound(true_error_idx', issue_idx)
              /\ pc' = "retrain_cell"
    /\ UNCHANGED << model, pred_probs, df, df_c, shuffle_0, df_train, df_test,
                    test_data, test_labels, train_data, train_labels, preds,
                    acc_original, issue_idx, issue_stud_id, issues_df,
                    train_data_cl, train_labels_cl, acc_clean, studio_export,
                    clean_df, clean_data, clean_labels, acc_studio, cv_folds,
                    next_id, split_idx, calls, evals, fits >>
    /\ UNCHANGED imageOnly
    /\ UNCHANGED transformerOnly

\* Retraining cell: drop the flagged rows, fit a new model, evaluate.
RetrainCell ==
    /\ pc = "retrain_cell"
    /\ IF DropRaises(df_train, issue_idx)
         THEN /\ pc' = "error"           \* KeyError
              /\ UNCHANGED << train_data_cl, train_labels_cl, model, next_id,
                              calls, preds, acc_clean, evals, fits >>
         ELSE /\ train_labels_cl' = Column(DropRows(df_train, issue_idx),
                                           "noisy_letter_grade")
              /\ train_data_cl' = DropColumns(DropRows(df_train, issue_idx), IdColumns)
              /\ model' = Fit(XGBClassifier(next_id), train_data_cl', train_labels_cl')
              /\ next_id' = next_id + 1
              /\ fits' = fits \cup { [cell |-> "retrain", used |-> "fit",
                                       estimator |-> XGBClassifier(next_id)] }
              /\ calls' = calls \cup
                    { [fn |-> "fit", X |-> train_data_cl', y |-> train_labels_cl'] }
              /\ preds' \in Predictions(model', test_data)
              /\ acc_clean' = AccuracyScore(preds', Values(test_labels))
              /\ evals' = evals \cup { [acc |-> "acc_clean", data |-> test_data,
                                        labels |-> test_labels,
                                        estimator |-> model'.id] }
              \* err = (...)/(1-acc_original): ZeroDivisionError
              /\ pc' = IF acc_original[1] = acc_original[2]
                         THEN "error" ELSE "studio_cell"
    /\ UNCHANGED << pred_probs, df, df_c, shuffle_0, df_train, df_test, test_data,
                    test_labels, train_data, train_labels, acc_original, issue_idx,
                    issue_stud_id, issues_df, true_error_idx, cl_acc,
                    studio_export, clean_df, clean_data, clean_labels, acc_studio,
                    cv_folds, split_idx >>
    /\ UNCHANGED imageOnly
    /\ UNCHANGED transformerOnly

\* Studio cell: the export restricted to the training students, encoded,
\* a new model fitted on it and evaluated.
StudioCell ==
    /\ pc = "studio_cell"
    /\ studio_export' \in StudioExports(df_c)
    /\ clean_df' =
          FitTransform(
              FitTransform(
                  WhereIsin(studio_export', "stud_ID",
                            { df_train[p].stud_ID : p \in DOMAIN df_train }),
                  "cleanlab_suggested_label"),
              "notes")
    /\ clean_labels' = Column(clean_df', "cleanlab_suggested_label")
    /\ clean_data' = SelectColumns(clean_df', {"exam_1", "exam_2", "exam_3", "notes"})
    /\ model' = Fit(XGBClassifier(next_id), clean_data', clean_labels')
    /\ next_id' = next_id + 1
    /\ fits' = fits \cup { [cell |-> "studio", used |-> "fit",
                             estimator |-> XGBClassifier(next_id)] }
    /\ calls' = calls \cup { [fn |-> "fit", X |-> clean_data', y |-> clean_labels'] }
    /\ preds' \in Predictions(model', test_data)
    /\ acc_studio' = AccuracyScore(preds', Values(test_labels))
    /\ evals' = evals \cup { [acc |-> "acc_studio", data |-> test_data,
                              labels |-> test_labels, estimator |-> model'.id] }
    \* studio_err = (...)/(1-acc_clean): ZeroDivisionError
    /\ pc' = IF acc_clean[1] = acc_clean[2] THEN "error" ELSE "done"
    /\ UNCHANGED << pred_probs, df, df_c, shuffle_0, df_train, df_test, test_data,
                    test_labels, train_data, train_labels, acc_original, issue_idx,
                    issue_stud_id, issues_df, true_error_idx, cl_acc,
                    train_data_cl, train_labels_cl, acc_clean, cv_folds,
                    split_idx >>
    /\ UNCHANGED imageOnly
    /\ UNCHANGED transformerOnly

TabularNext ==
    \/ SetupCell
    \/ BaselineCell
    \/ IssuesCell
    \/ ScoreCell
    \/ RetrainCell
    \/ StudioCell

SpecTabular == TabularInit /\ [][TabularNext]_vars

\* ------------------------------------------------------------------------
\* unnamed/part_000: the datasets considered
\* ------------------------------------------------------------------------
\* A review text is the sequence of its wordpieces; the vocabulary ids of the
\* wordpieces start after those of the special tokens.
Text(n) == [ k \in 1 .. n |-> 1000 + k ]

\* amazon_reviews/*.csv: reviews that are short, fill the 30 ids exactly,
\* exceed them by one and exceed them by more, in rotation; the labels 0 and
\* 1 alternate.
TextLenChoices == << ShortText, 28, 29, MaxTokens >>

ReviewFile(n, shift) ==
    [ k \in 1 .. n |->
        [ review_text |-> Text(TextLenChoices[((k + shift) % 4) + 1]),
          label |-> k % 2 ] ]

\* ------------------------------------------------------------------------
\* unnamed/part_000: library calls
\* ------------------------------------------------------------------------
\* Special tokens of the bert-base-uncased vocabulary.
PAD == 0
CLS == 101
SEP == 102

Pad(ids, n) == ids \o [ k \in 1 .. (n - Len(ids)) |-> PAD ]

Tokenize_NoTruncation(text, padding, truncation, max_length) ==
    LET ids == << CLS >> \o text \o << SEP >>
        out == IF padding = "max_length" /\ Len(ids) < max_length
                 THEN Pad(ids, max_length) ELSE ids
    IN  [ input_ids |-> out,
          attention_mask |-> [ k \in DOMAIN out |-> IF out[k] # PAD THEN 1 ELSE 0 ] ]

\* tokenizer(text, padding=..., truncation=..., max_length=...) for one text:
\* [CLS] wordpieces [SEP], the wordpieces cut so that the ids number at most
\* max_length, then [PAD] up to max_length.
Tokenize(text, padding, truncation, max_length) ==
    LET body == IF truncation /\ Len(text) + 2 > max_length
                  THEN SubSeq(text, 1, max_length - 2) ELSE text
        ids == << CLS >> \o body \o << SEP >>
        out == IF padding = "max_length" /\ Len(ids) < max_length
                 THEN Pad(ids, max_length) ELSE ids
    IN  [ input_ids |-> out,
          attention_mask |-> [ k \in DOMAIN out |-> IF out[k] # PAD THEN 1 ELSE 0 ] ]

\* tokenizer(list_of_texts, ..., return_tensors="tf")
TokenizeAll(texts, padding, truncation, max_length) ==
    [ input_ids |-> [ k \in DOMAIN texts |->
                        Tokenize(texts[k], padding, truncation, max_length).input_ids ],
      attention_mask |-> [ k \in DOMAIN texts |->
                        Tokenize(texts[k], padding, truncation, max_length).attention_mask ] ]

\* return_tensors="tf" raises ValueError unless all rows have one length.
Ragged(rows) == \E i, j \in DOMAIN rows : Len(rows[i]) # Len(rows[j])

\* The tokenizer arguments of the two calls.
TrainMaxLength == 30
TestMaxLength == 30

\* model_kwargs of the two KerasWrapperModel constructions.
ModelKwargs == [model_name |-> "bert-base-uncased", max_len |-> 30, n_classes |-> 2]
ClModelKwargs == [model_name |-> "bert-base-uncased", max_len |-> 30, n_classes |-> 2]

\* KerasWrapperModel(model=build_model, model_kwargs=..., compile_kwargs=...):
\* the network is built when it is first needed.
KerasWrapperModel(model_kwargs) ==
    [ class |-> "KerasWrapperModel", model_kwargs |-> model_kwargs, net |-> NoModel ]

\* build_model(model_name, max_len, n_classes): input layer of shape (max_len,).
build_model(kwargs) ==
    [ input_shape |-> kwargs.max_len, n_classes |-> kwargs.n_classes,
      fitted |-> FALSE, X |-> << >>, y |-> << >>, fit_kwargs |-> << >> ]

\* self.net of the wrapper, built if it was not yet.
Net(obj) == IF obj.net = NoModel THEN build_model(obj.model_kwargs) ELSE obj.net

\* Keras raises ValueError for an input whose length is not the input layer's.
ShapeMismatch(obj, X) ==
    \E i \in DOMAIN X : Len(X[i]) # Net(obj).input_shape

\* KerasWrapperModel.fit(X, y, **kwargs)
KerasFit(obj, X, y, kwargs) ==
    [obj EXCEPT !.net = [Net(obj) EXCEPT !.fitted = TRUE, !.X = X, !.y = y,
                                         !.fit_kwargs = kwargs]]

\* KerasWrapperModel.predict(X): a class of 0 .. n_classes-1 for every row;
\* the networks considered answer with one class, or alternate.
KerasPredict(obj, X) ==
    { [ k \in DOMAIN X |-> c ] : c \in 0 .. (obj.model_kwargs.n_classes - 1) }
    \cup { [ k \in DOMAIN X |-> k % obj.model_kwargs.n_classes ] }

\* np.mean(a == b)
Mean(a, b) == Frac(Cardinality({ k \in DOMAIN a : a[k] = b[k] }), Len(a))

\* params of the grid search and the candidates GridSearchCV evaluates.
ParamGrid == [batch_size |-> {32, 64}, epochs |-> {5, 10}]

Candidates(grid) ==
    { [batch_size |-> b, epochs |-> e] : b \in grid.batch_size, e \in grid.epochs }

\* model.fit(train_input_ids, train_labels, epochs=5, batch_size=64)
FitKwargs == [epochs |-> 5, batch_size |-> 64]

\* clf_kwargs of cl.fit
ClfKwargs == [epochs |-> 5, batch_size |-> 64]

CleanLearning_ClonesClf(h, clf) ==
    [ heap |-> Append(h, KerasWrapperModel(h[clf].model_kwargs)),
      cl |-> [ clf |-> Len(h) + 1, cv_n_folds |-> 3, label_issues |-> NoModel ] ]

\* CleanLearning(clf=model, cv_n_folds=3, verbose=True) keeps a reference to
\* the object it is given: the objects h after the construction and the new
\* CleanLearning object.
CleanLearning(h, clf) ==
    [ heap |-> h,
      cl |-> [ clf |-> clf, cv_n_folds |-> 3, label_issues |-> NoModel ] ]

\* The label issues cl.fit may find: none, or one training example.
LabelIssues(n) == { {} } \cup { {i} : i \in 1 .. n }

\* x_cleaned, labels_cleaned: the rows that are not label issues.
RECURSIVE Cleaned(_, _, _)
Cleaned(rows, issues, n) ==
    IF n = 0 THEN << >>
    ELSE IF n \in issues THEN Cleaned(rows, issues, n - 1)
         ELSE Append(Cleaned(rows, issues, n - 1), rows[n])

\* ------------------------------------------------------------------------
\* unnamed/part_000: the cells
\* ------------------------------------------------------------------------
\* The tabular notebook's variables of other names while this notebook runs.
TabularRestIdle ==
    /\ df = << >> /\ df_c = << >> /\ shuffle_0 = 0
    /\ df_train = << >> /\ df_test = << >>
    /\ preds = << >> /\ acc_original = << >>
    /\ issue_idx = << >> /\ issue_stud_id = << >> /\ issues_df = << >>
    /\ true_error_idx = {} /\ cl_acc = << >>
    /\ train_data_cl = << >> /\ train_labels_cl = << >> /\ acc_clean = << >>
    /\ studio_export = << >> /\ clean_df = << >> /\ clean_data = << >>
    /\ clean_labels = << >> /\ acc_studio = << >>
    /\ cv_folds = << >> /\ next_id = 0 /\ split_idx = << >> /\ calls = {}
    /\ fits = {}

\* After the cell that reads the two csv files.
TransformerInit ==
    /\ ImageIdle
    /\ TabularRestIdle
    /\ pc = "tokenize_cell"
    /\ pred_probs = << >>
    /\ \E shift \in 0 .. MaxShift : train_data = ReviewFile(NumReviews, shift)
    /\ \E shift \in 0 .. MaxShift : test_data = ReviewFile(NumTestReviews, shift)
    /\ model = NoModel
    /\ train_labels = << >> /\ test_labels = << >>
    /\ evals = {}
    /\ TransformerIdle

\* Tokenization cell.
TokenizeCell ==
    /\ pc = "tokenize_cell"
    /\ LET tr == TokenizeAll([ k \in DOMAIN train_data |-> train_data[k].review_text ],
                             "max_length", TRUE, TrainMaxLength)
           te == TokenizeAll([ k \in DOMAIN test_data |-> test_data[k].review_text ],
                             "max_length", TRUE, TestMaxLength)
       IN  IF Ragged(tr.input_ids)
             THEN /\ pc' = "error"
                  /\ UNCHANGED << train_input, test_input >>
             ELSE IF Ragged(te.input_ids)
                    THEN /\ train_input' = tr
                         /\ pc' = "error"
                         /\ UNCHANGED test_input
                    ELSE /\ train_input' = tr
                         /\ test_input' = te
                         /\ pc' = "input_ids_cell"
    /\ UNCHANGED << model, pred_probs, train_data, test_data, train_labels,
                    test_labels, evals, train_input_ids, test_input_ids, heap,
                    params, gs, model_preds, model_accuracy, cl, cl_preds,
                    cl_accuracy >>
    /\ UNCHANGED imageOnly
    /\ UNCHANGED tabularRest

\* train_input_ids, train_labels, test_input_ids, test_labels.
InputIdsCell ==
    /\ pc = "input_ids_cell"
    /\ train_input_ids' = train_input.input_ids
    /\ train_labels' = [ k \in DOMAIN train_data |-> train_data[k].label ]
    /\ test_input_ids' = test_input.input_ids
    /\ test_labels' = [ k \in DOMAIN test_data |-> test_data[k].label ]
    /\ pc' = "wrap_cell"
    /\ UNCHANGED << model, pred_probs, train_data, test_data, evals, train_input,
                    test_input, heap, params, gs, model_preds, model_accuracy,
                    cl, cl_preds, cl_accuracy >>
    /\ UNCHANGED imageOnly
    /\ UNCHANGED tabularRest

\* model = KerasWrapperModel(...)
WrapCell ==
    /\ pc = "wrap_cell"
    /\ heap' = Append(heap, KerasWrapperModel(ModelKwargs))
    /\ model' = Len(heap')
    /\ pc' = "summary_cell"
    /\ UNCHANGED << pred_probs, train_data, test_data, train_labels, test_labels,
                    evals, train_input, test_input, train_input_ids,
                    test_input_ids, params, gs, model_preds, model_accuracy, cl,
                    cl_preds, cl_accuracy >>
    /\ UNCHANGED imageOnly
    /\ UNCHANGED tabularRest

\* model.summary() builds the network of the wrapper.
SummaryCell ==
    /\ pc = "summary_cell"
    /\ heap' = [heap EXCEPT ![model].net = Net(heap[model])]
    /\ pc' = "grid_cell"
    /\ UNCHANGED << model, pred_probs, train_data, test_data, train_labels,
                    test_labels, evals, train_input, test_input, train_input_ids,
                    test_input_ids, params, gs, model_preds, model_accuracy, cl,
                    cl_preds, cl_accuracy >>
    /\ UNCHANGED imageOnly
    /\ UNCHANGED tabularRest

\* gs = GridSearchCV(model, params, refit=False, cv=3, ...); gs.fit(...):
\* clones of model are fitted, model itself is not; any candidate may score
\* best.
GridSearchCell ==
    /\ pc = "grid_cell"
    /\ params' = ParamGrid
    /\ IF ShapeMismatch(heap[model], train_input_ids)
         THEN /\ pc' = "error"
              /\ gs' = [estimator |-> model, param_grid |-> params', refit |-> FALSE,
                        cv |-> 3]
         ELSE /\ \E best \in Candidates(params') :
                    gs' = [estimator |-> model, param_grid |-> params',
                           refit |-> FALSE, cv |-> 3, best_params_ |-> best]
              /\ pc' = "fit_cell"
    /\ UNCHANGED << model, pred_probs, train_data, test_data, train_labels,
                    test_labels, evals, train_input, test_input, train_input_ids,
                    test_input_ids, heap, model_preds, model_accuracy, cl,
                    cl_preds, cl_accuracy >>
    /\ UNCHANGED imageOnly
    /\ UNCHANGED tabularRest

\* model.fit(train_input_ids, train_labels, epochs=5, batch_size=64)
FitCell ==
    /\ pc = "fit_cell"
    /\ heap' = [heap EXCEPT ![model] =
                   KerasFit(@, train_input_ids, train_labels, FitKwargs)]
    /\ pc' = "eval_cell"
    /\ UNCHANGED << model, pred_probs, train_data, test_data, train_labels,
                    test_labels, evals, train_input, test_input, train_input_ids,
                    test_input_ids, params, gs, model_preds, model_accuracy, cl,
                    cl_preds, cl_accuracy >>
    /\ UNCHANGED imageOnly
    /\ UNCHANGED tabularRest

\* model_preds = model.predict(test_input_ids); model_accuracy = np.mean(...)
EvalCell ==
    /\ pc = "eval_cell"
    /\ IF ShapeMismatch(heap[model], test_input_ids)
         THEN /\ pc' = "error"
              /\ UNCHANGED << model_preds, model_accuracy, evals >>
         ELSE /\ model_preds' \in KerasPredict(heap[model], test_input_ids)
              /\ model_accuracy' = Mean(model_preds', test_labels)
              /\ evals' = evals \cup
                    { [acc |-> "model_accuracy", object |-> model,
                       net |-> heap[model].net, data |-> test_input_ids,
                       labels |-> test_labels] }
              /\ pc' = "cl_cell"
    /\ UNCHANGED << model, pred_probs, train_data, test_data, train_labels,
                    test_labels, train_input, test_input, train_input_ids,
                    test_input_ids, heap, params, gs, cl, cl_preds, cl_accuracy >>
    /\ UNCHANGED imageOnly
    /\ UNCHANGED tabularRest

\* model = KerasWrapperModel(...); cl = CleanLearning(clf=model, cv_n_folds=3)
CleanLearningCell ==
    /\ pc = "cl_cell"
    /\ model' = Len(heap) + 1
    /\ LET made == CleanLearning(Append(heap, KerasWrapperModel(ClModelKwargs)),
                                 model')
       IN  /\ cl' = made.cl
           /\ heap' = made.heap
    /\ pc' = "cl_fit_cell"
    /\ UNCHANGED << pred_probs, train_data, test_data, train_labels, test_labels,
                    evals, train_input, test_input, train_input_ids,
                    test_input_ids, params, gs, model_preds, model_accuracy,
                    cl_preds, cl_accuracy >>
    /\ UNCHANGED imageOnly
    /\ UNCHANGED tabularRest

\* cl.fit(train_input_ids, train_labels, clf_kwargs={...}): out-of-sample
\* probabilities from clones of cl.clf, the label issues, then cl.clf is
\* fitted on the rows that are not label issues.
ClFitCell ==
    /\ pc = "cl_fit_cell"
    /\ IF ShapeMismatch(heap[cl.clf], train_input_ids)
         THEN /\ pc' = "error"
              /\ UNCHANGED << cl, heap >>
         ELSE /\ \E issues \in LabelIssues(Len(train_labels)) :
                    /\ cl' = [cl EXCEPT !.label_issues = issues]
                    /\ heap' = [heap EXCEPT ![cl.clf] =
                          KerasFit(@, Cleaned(train_input_ids, issues, Len(train_input_ids)),
                                   Cleaned(train_labels, issues, Len(train_labels)),
                                   ClfKwargs)]
              /\ pc' = "cl_eval_cell"
    /\ UNCHANGED << model, pred_probs, train_data, test_data, train_labels,
                    test_labels, evals, train_input, test_input, train_input_ids,
                    test_input_ids, params, gs, model_preds, model_accuracy,
                    cl_preds, cl_accuracy >>
    /\ UNCHANGED imageOnly
    /\ UNCHANGED tabularRest

\* cl_preds = model.predict(test_input_ids); cl_accuracy = np.mean(...)
ClEvalCell ==
    /\ pc = "cl_eval_cell"
    /\ IF heap[model].net = NoModel \/ ShapeMismatch(heap[model], test_input_ids)
         THEN /\ pc' = "error"       \* predict of a wrapper that was never fitted
              /\ UNCHANGED << cl_preds, cl_accuracy, evals >>
         ELSE /\ cl_preds' \in KerasPredict(heap[model], test_input_ids)
              /\ cl_accuracy' = Mean(cl_preds', test_labels)
              /\ evals' = evals \cup
                    { [acc |-> "cl_accuracy", object |-> model,
                       net |-> heap[model].net, data |-> test_input_ids,
                       labels |-> test_labels] }
              /\ pc' = "done"
    /\ UNCHANGED << model, pred_probs, train_data, test_data, train_labels,
                    test_labels, train_input, test_input, train_input_ids,
                    test_input_ids, heap, params, gs, model_preds,
                    model_accuracy, cl >>
    /\ UNCHANGED imageOnly
    /\ UNCHANGED tabularRest

TransformerNext ==
    \/ TokenizeCell
    \/ InputIdsCell
    \/ WrapCell
    \/ SummaryCell
    \/ GridSearchCell
    \/ FitCell
    \/ EvalCell
    \/ CleanLearningCell
    \/ ClFitCell
    \/ ClEvalCell

SpecTransformer == TransformerInit /\ [][TransformerNext]_vars

\* ------------------------------------------------------------------------
\* Properties of the image notebook
\* ------------------------------------------------------------------------
FoldNumbers == 1 .. num_folds

\* C1: every saved row pred_probs[i] was computed by the checkpoint of the
\* fold whose held-out set in the training cell contains i, and the weights
\* of that checkpoint were fitted on a training subset that excludes i.
C1_OutOfSamplePredProbs ==
    pc = "saved" =>
        \A i \in Images :
            /\ saved.pred_probs[i] # Zeros
            /\ \E k \in FoldNumbers :
                /\ i \in held_out[k]
                /\ saved.pred_probs[i].path = k
                /\ saved.pred_probs[i].weights = files[k].state_dict
                /\ saved.pred_probs[i].weights.seen = Images \ held_out[k]
            /\ i \notin saved.pred_probs[i].weights.seen

C1_Witness ==
    /\ pc = "saved"
    /\ \E i \in Images :
        /\ saved.pred_probs[i] # Zeros
        /\ saved.pred_probs[i].path = 3
        /\ saved.pred_probs[i].weights.seen # {}

\* C2: once the prediction loop has finished, every row of pred_probs and
\* of features has been assigned exactly once and none is left at zeros; the
\* held-out sets of the folds are pairwise disjoint and cover the dataset.
C2_EveryRowWrittenOnce ==
    pc \in {"predict_save", "saved"} =>
        /\ \A i \in Images :
            /\ pp_writes[i] = 1
            /\ ft_writes[i] = 1
            /\ pred_probs[i] # Zeros
            /\ features[i] # Zeros
        /\ \A j, k \in 0 .. (num_folds - 1) :
            j # k => KfTestIdx(test_folds, j) \cap KfTestIdx(test_folds, k) = {}
        /\ UNION { KfTestIdx(test_folds, k) : k \in 0 .. (num_folds - 1) } = Images

C2_Witness ==
    /\ pc = "predict_save"
    /\ \A i \in Images : pp_writes[i] = 1 /\ ft_writes[i] = 1
    /\ \E k \in 0 .. (num_folds - 1) : Cardinality(KfTestIdx(test_folds, k)) = 2

RecordEpoch(h, e) ==
    CHOOSE j \in 0 .. e :
        /\ \A i \in 0 .. (j - 1) : FracGt(h[j + 1], h[i + 1])
        /\ \A m \in (j + 1) .. e :
              \E i \in 0 .. (m - 1) : ~FracGt(h[m + 1], h[i + 1])

StopsAfter(h, e) == e - RecordEpoch(h, e) > patience

LoopEnded == pc \in {"fold_loop", "predict_cell"} /\ Len(val_history) > 0

C5_FeaturesFromFoldOne ==
    pc = "saved" =>
        \A i \in Images :
            /\ saved.features[i] # Zeros
            /\ saved.features[i].path = 1
            /\ saved.features[i].weights = ResetClassifier(files[1].state_dict)
            /\ saved.features[i].weights.head = FALSE

C5_Witness ==
    /\ pc = "saved"
    /\ \E i \in held_out[3] :
        /\ saved.features[i] # Zeros
        /\ saved.features[i].path = 1
        /\ i \in saved.features[i].weights.seen

\* C16: in the prediction cell kf.split yields, for every fold number k, the
\* held-out set the training cell had for fold k, so the checkpoint of fold k
\* predicts exactly the images that were held out when it was trained.
C16_SameFoldsInBothCells ==
    /\ (pc \in {"predict_loop", "predict_save", "saved"} /\ fold >= 1) =>
        /\ \A k \in FoldNumbers : KfTestIdx(test_folds, k - 1) = held_out[k]
        /\ test_idx = held_out[fold]
        /\ \A k \in 1 .. fold : \A i \in held_out[k] :
              /\ pred_probs[i] # Zeros
              /\ pred_probs[i].path = k
    /\ pc = "saved" =>
        \A k \in FoldNumbers : \A i \in Images :
            (saved.pred_probs[i].path = k) <=> (i \in held_out[k])

C16_Witness ==
    /\ pc = "saved"
    /\ shuffle_42 = 1
    /\ \E k \in FoldNumbers : Cardinality(held_out[k]) = 2
    /\ test_folds # TestFolds(labels, num_folds, 0)

TrainingCell == {"train_cell", "fold_loop", "epoch_loop"}

\* What holds while, and when, the training cell runs.
TrainingCellBounded ==
    /\ pc = "epoch_loop" =>
        /\ fold < num_folds
        /\ epoch < num_epochs
        /\ Len(val_history) = epoch
    /\ pc = "fold_loop" =>
        /\ 1 <= fold /\ fold < num_folds
        /\ 1 <= Len(val_history) /\ Len(val_history) <= num_epochs
    /\ pc = "predict_cell" =>
        /\ fold = num_folds
        /\ 1 <= Len(val_history) /\ Len(val_history) <= num_epochs
        /\ \A k \in FoldNumbers : held_out[k] # {}

\* A step of the training cell: the next epoch of the same fold, the end of
\* a fold's epoch loop, or the start of the next fold.
TrainingCellStep ==
    pc \in TrainingCell =>
        /\ (pc = "epoch_loop" /\ pc' = "epoch_loop") =>
              /\ fold' = fold
              /\ epoch' = epoch + 1
              /\ Len(val_history') = Len(val_history) + 1
        /\ fold' # fold =>
              /\ pc = "epoch_loop"
              /\ fold' = fold + 1
              /\ pc' \in {"fold_loop", "predict_cell"}
              /\ Len(val_history') = epoch + 1
        /\ (pc # "epoch_loop" /\ pc' = "epoch_loop") =>
              /\ fold' = fold
              /\ epoch' = 0
              /\ val_history' = << >>
              /\ held_out[fold + 1] = {}
              /\ held_out'[fold + 1] = test_idx'
              /\ pc = "train_cell" => fold = 0

\* C17: the training cell runs the folds 0 .. num_folds-1 one after the
\* other, each for at least one and at most num_epochs epochs, fold k+1
\* starting only when the epoch loop of fold k has ended and no epoch being
\* run twice, and it always comes to its end.
C17_TrainingCellTerminates ==
    /\ []TrainingCellBounded
    /\ [][TrainingCellStep]_vars
    /\ <>(pc \notin TrainingCell)

C17_Witness ==
    /\ pc = "predict_cell"
    /\ fold = num_folds
    /\ Len(val_history) = 4
    /\ \A k \in FoldNumbers : held_out[k] # {}


\* ------------------------------------------------------------------------
\* Properties of the tabular notebook
\* ------------------------------------------------------------------------
FeatureColumns == {"index", "exam_1", "exam_2", "exam_3", "notes"}

\* The frame with every ground-truth grade blanked out.
Redact(d) == [ p \in DOMAIN d |-> [d[p] EXCEPT !.letter_grade = -1] ]

RedactedLabels == Column(Redact(df_train), "noisy_letter_grade")

\* The training and detection calls, computed from the redacted training
\* frame.
RedactedCalls ==
    { [fn |-> "fit", X |-> DropColumns(Redact(df_train), IdColumns),
       y |-> RedactedLabels],
      [fn |-> "cross_val_predict", X |-> DropColumns(Redact(df_train), IdColumns),
       y |-> RedactedLabels],
      [fn |-> "find_label_issues", X |-> pred_probs, y |-> RedactedLabels],
      [fn |-> "fit",
       X |-> DropColumns(DropRows(Redact(df_train), issue_idx), IdColumns),
       y |-> Column(DropRows(Redact(df_train), issue_idx), "noisy_letter_grade")],
      [fn |-> "fit", X |-> clean_data, y |-> clean_labels] }

\* C6: no feature matrix passed to model.fit or cross_val_predict has a
\* letter_grade column, and the arguments of every training and detection
\* call are what they are with the ground-truth grades of the training rows
\* blanked out; the rows of the Studio frame carry no letter_grade either.
C6_GroundTruthNeverTrainedOn ==
    /\ \A c \in calls :
        c.fn \in {"fit", "cross_val_predict"} =>
            \A p \in DOMAIN c.X : DOMAIN c.X[p] = FeatureColumns
    /\ calls \subseteq RedactedCalls
    /\ \A p \in DOMAIN clean_df : "letter_grade" \notin DOMAIN clean_df[p]

C6_Witness ==
    /\ pc = "done"
    /\ Cardinality(calls) = 5
    /\ \E p \in DOMAIN df_train :
          df_train[p].letter_grade # df_train[p].noisy_letter_grade

\* C7: every accuracy is computed on test_data against test_labels, which are
\* still the feature columns and the ground-truth letter_grade of the rows
\* the split put into the test set; df_test is as the split left it.
C7_SameTestSetEverywhere ==
    pc # "setup_cell" =>
        /\ df_test = ResetIndex(Iloc(df, split_idx.test))
        /\ test_data = SelectColumns(df_test, {"exam_1", "exam_2", "exam_3", "notes"})
        /\ DOMAIN test_labels = DOMAIN df_test
        /\ \A p \in DOMAIN test_labels :
              test_labels[p].value = df[split_idx.test[p] + 1].letter_grade
        /\ \A e \in evals : e.data = test_data /\ e.labels = test_labels
        /\ pc = "done" =>
              { e.acc : e \in evals } = {"acc_original", "acc_clean", "acc_studio"}

C7_Witness ==
    /\ pc = "done"
    /\ Cardinality(evals) = 3
    /\ \E p \in DOMAIN df_test :
          df_test[p].letter_grade # df_test[p].noisy_letter_grade
    /\ acc_original # acc_studio

SameRow(r, q) == \A f \in (DOMAIN r) \ {"index"} : r[f] = q[f]

\* C8: df_train and df_test are disjoint, together hold every row of df
\* once, df_test has ceil(0.25 * n) rows and df_train the rest.
C8_SplitIsPartition ==
    pc # "setup_cell" =>
        LET n == Len(df)
            tr == split_idx.train
            te == split_idx.test
        IN  /\ Range(tr) \cap Range(te) = {}
            /\ Range(tr) \cup Range(te) = Positions(df)
            /\ Cardinality(Range(tr)) = Len(tr)
            /\ Cardinality(Range(te)) = Len(te)
            /\ Len(df_train) = Len(tr)
            /\ Len(df_test) = Len(te)
            /\ \A k \in DOMAIN df_train : SameRow(df_train[k], df[tr[k] + 1])
            /\ \A k \in DOMAIN df_test : SameRow(df_test[k], df[te[k] + 1])
            /\ 4 * Len(df_test) >= n
            /\ 4 * (Len(df_test) - 1) < n
            /\ Len(df_train) = n - Len(df_test)

C8_Witness ==
    /\ pc = "baseline_cell"
    /\ Len(df_test) = 3
    /\ Len(df_train) = 6
    /\ 4 * Len(df_test) > Len(df)
    /\ df_train[1].stud_ID # df[1].stud_ID

\* The positions 0..n-1 that are not flagged, in increasing order.
RECURSIVE KeptPositions(_, _)
KeptPositions(n, flagged) ==
    IF n = 0 THEN << >>
    ELSE IF (n - 1) \in flagged
           THEN KeptPositions(n - 1, flagged)
           ELSE Append(KeptPositions(n - 1, flagged), n - 1)

Retrained == acc_clean # << >>

\* C9: after the retraining cell, train_data_cl and train_labels_cl are the
\* rows of df_train at the positions that are not in issue_idx, in their
\* original order; the index labels of df_train are its positions.
C9_FlaggedRowsRemoved ==
    /\ pc \notin {"setup_cell"} =>
          \A p \in DOMAIN df_train : df_train[p].index = p - 1
    /\ Retrained =>
        LET kept == KeptPositions(Len(df_train), Range(issue_idx))
        IN  /\ Len(train_data_cl) = Len(df_train) - Len(issue_idx)
            /\ Len(train_labels_cl) = Len(train_data_cl)
            /\ train_data_cl = SelectColumns(Iloc(df_train, kept),
                                             {"exam_1", "exam_2", "exam_3", "notes"})
            /\ \A k \in DOMAIN kept :
                  train_labels_cl[k].value = df_train[kept[k] + 1].noisy_letter_grade
            /\ [fn |-> "fit", X |-> train_data_cl, y |-> train_labels_cl] \in calls

C9_Witness ==
    /\ Retrained
    /\ issue_idx = << 4, 1 >>
    /\ Len(train_data_cl) = 4

\* C10: each row of the pred_probs given to find_label_issues comes from
\* cross_val_predict on (train_data, noisy train_labels) with an estimator
\* constructed in that cell and not fitted, and was predicted by a clone
\* fitted without that row; none comes from the baseline model.
C10_PredProbsOutOfSample ==
    pc \in {"score_cell", "retrain_cell", "studio_cell", "done"} =>
        /\ DOMAIN pred_probs = Positions(train_data)
        /\ \A p \in DOMAIN pred_probs :
            /\ pred_probs[p].via = "cross_val_predict"
            /\ pred_probs[p].was_fitted = FALSE
            /\ pred_probs[p].estimator = 1
            /\ p \notin pred_probs[p].fit_on
            /\ pred_probs[p].fit_on # {}
        /\ [fn |-> "find_label_issues", X |-> pred_probs,
            y |-> Column(df_train, "noisy_letter_grade")] \in calls
        /\ [fn |-> "cross_val_predict", X |-> train_data,
            y |-> Column(df_train, "noisy_letter_grade")] \in calls

C10_Witness ==
    /\ pc = "score_cell"
    /\ \E p \in DOMAIN pred_probs : Cardinality(pred_probs[p].fit_on) = 4
    /\ \E p \in DOMAIN train_labels : train_labels[p].value # train_labels[1].value

\* The arguments every XGBClassifier of the notebook is constructed with.
SameArguments == [tree_method |-> "hist", enable_categorical |-> TRUE]

\* C11: the baseline, the cross-validation, the retraining after removal and
\* the retraining on the Studio export each use an estimator constructed in
\* their own cell with tree_method="hist", enable_categorical=True, not yet
\* fitted when the cell hands it its data; no estimator object is used by
\* two cells, and the model evaluated is the one its cell constructed.
C11_SameModelEverywhere ==
    /\ \A f \in fits :
        /\ f.estimator.params = SameArguments
        /\ f.estimator.fitted = FALSE
        /\ f.estimator.id < next_id
    /\ \A f, g \in fits : f.estimator.id = g.estimator.id => f.cell = g.cell
    /\ \A e \in evals :
          \E f \in fits :
              /\ f.estimator.id = e.estimator
              /\ f.cell = CASE e.acc = "acc_original" -> "baseline"
                             [] e.acc = "acc_clean" -> "retrain"
                             [] OTHER -> "studio"
    /\ pc \notin {"setup_cell", "baseline_cell"} => model.params = SameArguments
    /\ pc = "done" =>
          { f.cell : f \in fits } = {"baseline", "issues", "retrain", "studio"}

C11_Witness ==
    /\ pc = "done"
    /\ Cardinality(fits) = 4
    /\ Cardinality({ f.estimator.id : f \in fits }) = 4

\* The rows of the Studio export the Studio cell keeps, before it encodes them.
StudioRaw ==
    WhereIsin(studio_export, "stud_ID", { df_train[p].stud_ID : p \in DOMAIN df_train })

\* C12: in the frame the Studio cell trains on, every notes category (the
\* missing value included) and every letter grade carries the code the setup
\* cell gave it on the full dataset, the code test_data and test_labels use.
C12_StudioEncodingAsSetup ==
    clean_df # << >> =>
        \A p \in DOMAIN clean_df :
            /\ clean_df[p].notes = EncoderCode(df_c, "notes", StudioRaw[p].notes)
            /\ clean_df[p].cleanlab_suggested_label =
                  EncoderCode(df_c, "letter_grade",
                              StudioRaw[p].cleanlab_suggested_label)

\* T: the positions of df_train whose letter_grade differs from its
\* noisy_letter_grade.
MislabeledPositions ==
    { p \in Positions(df_train) :
        df_train[p + 1].letter_grade # df_train[p + 1].noisy_letter_grade }

\* C13: the value printed as "Percentage of errors found" is |T \cap I| / |T|
\* for the mislabeled positions T of df_train and the flagged positions I; it
\* lies between 0 and 1 and is 1 exactly when T is contained in I.  (With no
\* mislabeled training row the cell raises ZeroDivisionError and prints
\* nothing.)
C13_PercentageOfErrorsFound ==
    /\ pc \in {"retrain_cell", "studio_cell", "done"} => cl_acc # << >>
    /\ cl_acc # << >> =>
        LET T == MislabeledPositions
            I == Range(issue_idx)
        IN  /\ T # {}
            /\ true_error_idx = T
            /\ cl_acc = Frac(Cardinality(T \cap I), Cardinality(T))
            /\ 0 <= cl_acc[1] /\ cl_acc[1] <= cl_acc[2]
            /\ (cl_acc[1] = cl_acc[2]) <=> (T \subseteq I)

C13_Witness ==
    /\ pc = "retrain_cell"
    /\ cl_acc = Frac(1, 1)
    /\ Len(issue_idx) = 2
    /\ MislabeledPositions # Range(issue_idx)

\* stud_ID is unique in the dataset.
UniqueStudIds(d) == \A p, q \in DOMAIN d : d[p].stud_ID = d[q].stud_ID => p = q

\* The row of the unencoded dataset of the student at position i of df_train.
OriginalRowOf(i) ==
    CHOOSE r \in Range(df_c) : r.stud_ID = df_train[i + 1].stud_ID

RepeatedIdFlagged ==
    /\ pc = "score_cell"
    /\ ~UniqueStudIds(df_c)
    /\ Len(issues_df) > Len(issue_idx)

\* ------------------------------------------------------------------------
\* Properties of the transformer notebook
\* ------------------------------------------------------------------------
\* C14: the epochs and batch_size the baseline model.fit is called with are
\* gs.best_params_, whichever candidate the grid search found best.
C14_FitUsesBestParams ==
    pc = "eval_cell" =>
        /\ heap[model].net.fit_kwargs.epochs = gs.best_params_.epochs
        /\ heap[model].net.fit_kwargs.batch_size = gs.best_params_.batch_size

\* The evaluation recorded under a name.
EvalOf(name) == CHOOSE e \in evals : e.acc = name

\* C15: the object whose predict gives cl_preds is cl.clf, the classifier
\* cl.fit fitted on the training rows that are not label issues, and
\* cl_accuracy is measured on the test_input_ids and test_labels the baseline
\* model_accuracy was measured on, with another object.
C15_ClAccuracyOfCleanModel ==
    /\ pc \in {"cl_eval_cell", "done"} =>
        /\ cl.clf = model
        /\ heap[model].net # NoModel
        /\ heap[model].net.fitted
    /\ pc = "done" =>
        LET e == EvalOf("cl_accuracy")
            b == EvalOf("model_accuracy")
            n == Len(train_labels)
        IN  /\ Cardinality(evals) = 2
            /\ e.object = cl.clf
            /\ e.net = heap[cl.clf].net
            /\ e.net.X = Cleaned(train_input_ids, cl.label_issues, n)
            /\ e.net.y = Cleaned(train_labels, cl.label_issues, n)
            /\ Len(e.net.X) = n - Cardinality(cl.label_issues)
            /\ e.data = test_input_ids /\ e.labels = test_labels
            /\ b.data = e.data /\ b.labels = e.labels
            /\ b.object # e.object
            /\ b.net.X = train_input_ids
            /\ cl_accuracy = Mean(cl_preds, test_labels)
            /\ model_accuracy = Mean(model_preds, test_labels)

C15_Witness ==
    /\ pc = "done"
    /\ cl.label_issues = {2}
    /\ Len(heap[model].net.X) = NumReviews - 1
    /\ cl_accuracy # model_accuracy

\* The ids of one tokenized text: [CLS], the wordpieces (the first 28 of a
\* longer text), [SEP], and [PAD] up to 30 ids.
PaddedOrTruncated(text, ids) ==
    /\ Len(ids) = 30
    /\ ids[1] = CLS
    /\ Len(text) <= 28 =>
          /\ SubSeq(ids, 2, Len(text) + 1) = text
          /\ ids[Len(text) + 2] = SEP
          /\ \A j \in (Len(text) + 3) .. 30 : ids[j] = PAD
    /\ Len(text) > 28 =>
          /\ SubSeq(ids, 2, 29) = SubSeq(text, 1, 28)
          /\ ids[30] = SEP

\* C19: every tokenized example of train and test has exactly 30 input ids,
\* short texts padded and long ones truncated, and 30 is the max_len of the
\* input layer of the baseline and of the CleanLearning model, so no cell
\* raises for a length that does not fit.
C19_ThirtyInputIds ==
    /\ pc # "error"
    /\ pc # "tokenize_cell" =>
        /\ \A k \in DOMAIN train_data :
              PaddedOrTruncated(train_data[k].review_text, train_input.input_ids[k])
        /\ \A k \in DOMAIN test_data :
              PaddedOrTruncated(test_data[k].review_text, test_input.input_ids[k])
    /\ \A k \in DOMAIN train_input_ids : Len(train_input_ids[k]) = 30
    /\ \A k \in DOMAIN test_input_ids : Len(test_input_ids[k]) = 30
    /\ \A o \in DOMAIN heap :
        /\ heap[o].model_kwargs.max_len = 30
        /\ heap[o].net # NoModel =>
              /\ heap[o].net.input_shape = 30
              /\ \A k \in DOMAIN heap[o].net.X : Len(heap[o].net.X[k]) = 30
    /\ pc = "done" => Len(heap) = 2

C19_Witness ==
    /\ pc = "done"
    /\ \E k \in DOMAIN train_data : Len(train_data[k].review_text) > 28
    /\ \E k \in DOMAIN train_data : Len(train_data[k].review_text) < 28
    /\ \E k \in DOMAIN test_data : Len(test_data[k].review_text) = 29
    /\ \A o \in DOMAIN heap : heap[o].net # NoModel /\ heap[o].net.fitted
    /\ Len(heap) = 2

====
